---- MODULE Spec2Model ----
(***************************************************************************)
(* Snapshot delta detection of the Planner Delta Tracker (src/delta.py).   *)
(* A snapshot and a task are Python dicts: functions whose DOMAIN is the   *)
(* set of keys that are present.  DeltaDetector is modelled operation by   *)
(* operation: __init__, detect_changes, get_summary.                       *)
(***************************************************************************)
EXTENDS Integers, Sequences, FiniteSets, TLC

VARIABLES
    previous,        \* DeltaDetector.previous: the older snapshot (dict)
    current,         \* DeltaDetector.current: the newer snapshot (dict)
    previous_tasks,  \* DeltaDetector.previous_tasks: dict id -> task
    current_tasks,   \* DeltaDetector.current_tasks: dict id -> task
    changes,         \* the change list the caller holds (from detect_changes)
    arg,             \* the list get_summary counts (its `changes` local)
    summary,         \* the dict returned by get_summary
    pc,              \* position of the caller in construct/detect/summarize
    error,           \* the exception that ended the run, or NoError
    lines,           \* the lines of format_changes_text, before the join
    html,            \* the blocks of the HTML report, in document order
    calls,           \* concurrent invocations: each one's detector and position
    frames,          \* concurrent invocations: each one's local list `changes`
    store,           \* the snapshot store: the blob or the local file
    run,             \* the run of main.py in progress
    log              \* what earlier runs saved and captured

vars == <<previous, current, previous_tasks, current_tasks, changes, arg,
          summary, pc, error, lines, html, calls, frames, store, run, log>>

(***************************************************************************)
(* Bounds of the model.                                                    *)
(***************************************************************************)
\* longest task list of a snapshot
MaxTasks == 2
\* largest number of fields in which the two records of one task differ
MaxDiff == 2
\* longest change list handed to get_summary on its own
MaxChanges == 3

(***************************************************************************)
(* Python values.                                                          *)
(***************************************************************************)
\* Python's None in an Optional[str] position
None == "<None>"
NoError == "<no error>"

\* a JSON value of snapshot["tasks"]: a list, or null (a mistyped field)
JList(items) == [type |-> "list", items |-> items]
JNull == [type |-> "null"]

\* dict.get(k, default)
Get(d, k, default) == IF k \in DOMAIN d THEN d[k] ELSE default

\* str(n) + "%"
PercentStr(n) == ToString(n) \o "%"

(***************************************************************************)
(* A dict with insertion order: keys in the order of their first insertion,*)
(* each bound to the value inserted last.                                  *)
(***************************************************************************)
EmptyDict == [keys |-> <<>>, val |-> <<>>]

InDict(k, d) == \E i \in 1..Len(d.keys) : d.keys[i] = k

KeyPos(k, d) == CHOOSE i \in 1..Len(d.keys) : d.keys[i] = k

\* mutant: the lookup returns the first value stored, whatever the key
LookupFirstStored(d, k) == d.val[1]

Lookup(d, k) == d.val[KeyPos(k, d)]

\* mutant: a key that is already in the dict keeps its first value
DictSetFirstWins(d, k, v) ==
    IF InDict(k, d)
    THEN d
    ELSE [keys |-> Append(d.keys, k), val |-> Append(d.val, v)]

\* d[k] = v
DictSet(d, k, v) ==
    IF InDict(k, d)
    THEN [d EXCEPT !.val[KeyPos(k, d)] = v]
    ELSE [keys |-> Append(d.keys, k), val |-> Append(d.val, v)]

RECURSIVE IndexFrom(_, _, _)
IndexFrom(tasks, i, d) ==
    IF i > Len(tasks) THEN d
    ELSE IndexFrom(tasks, i + 1, DictSet(d, tasks[i]["id"], tasks[i]))

\* {t["id"]: t for t in tasks}
IndexTasks(tasks) == IndexFrom(tasks, 1, EmptyDict)

\* mutant: snapshot["tasks"], which raises when the key is missing
TasksOfSubscript(snapshot) == Get(snapshot, "tasks", [type |-> "KeyError"])

\* snapshot.get("tasks", [])
TasksOf(snapshot) == Get(snapshot, "tasks", JList(<<>>))

\* iterating a value that is not a list raises TypeError
Iterable(v) == v.type = "list"

(***************************************************************************)
(* TaskChange and detect_changes.                                          *)
(***************************************************************************)
TaskChange(change_type, task_id, task_title, assignees, old_value, new_value) ==
    [change_type |-> change_type, task_id |-> task_id,
     task_title |-> task_title, assignees |-> assignees,
     old_value |-> old_value, new_value |-> new_value]

AssigneesOf(task) == Get(task, "assignees_str", "Unassigned")

\* mutant: the bucket name of a new task stored as the old value
NewChangeAsOld(task_id, current_task) ==
    TaskChange("new", task_id, current_task["title"], AssigneesOf(current_task),
               Get(current_task, "bucket_name", "Unknown"), None)

NewChange(task_id, current_task) ==
    TaskChange("new", task_id, current_task["title"], AssigneesOf(current_task),
               None, Get(current_task, "bucket_name", "Unknown"))

DeletedChange(task_id, previous_task) ==
    TaskChange("deleted", task_id, previous_task["title"],
               AssigneesOf(previous_task),
               Get(previous_task, "bucket_name", "Unknown"), None)

\* mutant: the bucket names compared in place of the bucket ids
BucketCheckByName(task_id, previous_task, current_task) ==
    IF Get(current_task, "bucket_name", None)
           # Get(previous_task, "bucket_name", None)
    THEN << TaskChange("bucket_changed", task_id, current_task["title"],
                       AssigneesOf(current_task),
                       Get(previous_task, "bucket_name", "Unknown"),
                       Get(current_task, "bucket_name", "Unknown")) >>
    ELSE << >>

BucketCheck(task_id, previous_task, current_task) ==
    IF Get(current_task, "bucket_id", None) # Get(previous_task, "bucket_id", None)
    THEN << TaskChange("bucket_changed", task_id, current_task["title"],
                       AssigneesOf(current_task),
                       Get(previous_task, "bucket_name", "Unknown"),
                       Get(current_task, "bucket_name", "Unknown")) >>
    ELSE << >>

AssigneeCheck(task_id, previous_task, current_task) ==
    IF Get(current_task, "assignees_str", None)
           # Get(previous_task, "assignees_str", None)
    THEN << TaskChange("assignee_changed", task_id, current_task["title"],
                       AssigneesOf(current_task),
                       AssigneesOf(previous_task),
                       AssigneesOf(current_task)) >>
    ELSE << >>

\* mutant: the three completion cases as independent ifs, not if/elif/elif
CompletionCheckNoElif(task_id, previous_task, current_task) ==
    LET prev_complete == Get(previous_task, "percent_complete", 0)
        curr_complete == Get(current_task, "percent_complete", 0)
    IN  (IF prev_complete < 100 /\ curr_complete = 100
         THEN << TaskChange("completed", task_id, current_task["title"],
                            AssigneesOf(current_task),
                            PercentStr(prev_complete), "100%") >>
         ELSE << >>)
        \o (IF prev_complete = 100 /\ curr_complete < 100
            THEN << TaskChange("reopened", task_id, current_task["title"],
                               AssigneesOf(current_task),
                               "100%", PercentStr(curr_complete)) >>
            ELSE << >>)
        \o (IF prev_complete # curr_complete
            THEN << TaskChange("progress_changed", task_id,
                               current_task["title"], AssigneesOf(current_task),
                               PercentStr(prev_complete),
                               PercentStr(curr_complete)) >>
            ELSE << >>)

\* mutant: a task counts as completed when it was at most at 100 before
CompletionCheckAtMost(task_id, previous_task, current_task) ==
    LET prev_complete == Get(previous_task, "percent_complete", 0)
        curr_complete == Get(current_task, "percent_complete", 0)
    IN  IF prev_complete <= 100 /\ curr_complete = 100
        THEN << TaskChange("completed", task_id, current_task["title"],
                           AssigneesOf(current_task),
                           PercentStr(prev_complete), "100%") >>
        ELSE IF prev_complete = 100 /\ curr_complete < 100
        THEN << TaskChange("reopened", task_id, current_task["title"],
                           AssigneesOf(current_task),
                           "100%", PercentStr(curr_complete)) >>
        ELSE IF prev_complete # curr_complete
        THEN << TaskChange("progress_changed", task_id, current_task["title"],
                           AssigneesOf(current_task),
                           PercentStr(prev_complete),
                           PercentStr(curr_complete)) >>
        ELSE << >>

CompletionCheck(task_id, previous_task, current_task) ==
    LET prev_complete == Get(previous_task, "percent_complete", 0)
        curr_complete == Get(current_task, "percent_complete", 0)
    IN  IF prev_complete < 100 /\ curr_complete = 100
        THEN << TaskChange("completed", task_id, current_task["title"],
                           AssigneesOf(current_task),
                           PercentStr(prev_complete), "100%") >>
        ELSE IF prev_complete = 100 /\ curr_complete < 100
        THEN << TaskChange("reopened", task_id, current_task["title"],
                           AssigneesOf(current_task),
                           "100%", PercentStr(curr_complete)) >>
        ELSE IF prev_complete # curr_complete
        THEN << TaskChange("progress_changed", task_id, current_task["title"],
                           AssigneesOf(current_task),
                           PercentStr(prev_complete),
                           PercentStr(curr_complete)) >>
        ELSE << >>

\* mutant: the previous description read without its "" default
DescriptionCheckNoDefault(task_id, previous_task, current_task) ==
    IF Get(previous_task, "description", None)
           # Get(current_task, "description", "")
    THEN << TaskChange("description_changed", task_id, current_task["title"],
                       AssigneesOf(current_task), None, None) >>
    ELSE << >>

\* mutant: the change carries the two descriptions as old and new value
DescriptionCheckLeaky(task_id, previous_task, current_task) ==
    IF Get(previous_task, "description", "") # Get(current_task, "description", "")
    THEN << TaskChange("description_changed", task_id, current_task["title"],
                       AssigneesOf(current_task),
                       Get(previous_task, "description", ""),
                       Get(current_task, "description", "")) >>
    ELSE << >>

DescriptionCheck(task_id, previous_task, current_task) ==
    IF Get(previous_task, "description", "") # Get(current_task, "description", "")
    THEN << TaskChange("description_changed", task_id, current_task["title"],
                       AssigneesOf(current_task), None, None) >>
    ELSE << >>

\* mutant: the assignee check placed before the bucket check
ModificationsSwapped(task_id, previous_task, current_task) ==
    AssigneeCheck(task_id, previous_task, current_task)
    \o BucketCheck(task_id, previous_task, current_task)
    \o CompletionCheck(task_id, previous_task, current_task)
    \o DescriptionCheck(task_id, previous_task, current_task)

\* the else branch of the first loop: the checks of one existing task
Modifications(task_id, previous_task, current_task) ==
    BucketCheck(task_id, previous_task, current_task)
    \o AssigneeCheck(task_id, previous_task, current_task)
    \o CompletionCheck(task_id, previous_task, current_task)
    \o DescriptionCheck(task_id, previous_task, current_task)

\* one iteration of the first loop
CurrentStep(task_id, current_task, prev_idx) ==
    IF ~InDict(task_id, prev_idx)
    THEN << NewChange(task_id, current_task) >>
    ELSE Modifications(task_id, Lookup(prev_idx, task_id), current_task)

\* mutant: the membership test of the second loop inverted
PreviousStepInverted(task_id, previous_task, cur_idx) ==
    IF InDict(task_id, cur_idx)
    THEN << DeletedChange(task_id, previous_task) >>
    ELSE << >>

\* one iteration of the second loop
PreviousStep(task_id, previous_task, cur_idx) ==
    IF ~InDict(task_id, cur_idx)
    THEN << DeletedChange(task_id, previous_task) >>
    ELSE << >>

RECURSIVE CurrentLoop(_, _, _)
CurrentLoop(cur_idx, prev_idx, i) ==
    IF i > Len(cur_idx.keys) THEN << >>
    ELSE CurrentStep(cur_idx.keys[i], cur_idx.val[i], prev_idx)
         \o CurrentLoop(cur_idx, prev_idx, i + 1)

RECURSIVE PreviousLoop(_, _, _)
PreviousLoop(prev_idx, cur_idx, i) ==
    IF i > Len(prev_idx.keys) THEN << >>
    ELSE PreviousStep(prev_idx.keys[i], prev_idx.val[i], cur_idx)
         \o PreviousLoop(prev_idx, cur_idx, i + 1)

\* mutant: appearance, modification and disappearance as three passes
RECURSIVE AppearanceLoop(_, _, _)
AppearanceLoop(cur_idx, prev_idx, i) ==
    IF i > Len(cur_idx.keys) THEN << >>
    ELSE (IF ~InDict(cur_idx.keys[i], prev_idx)
          THEN << NewChange(cur_idx.keys[i], cur_idx.val[i]) >>
          ELSE << >>)
         \o AppearanceLoop(cur_idx, prev_idx, i + 1)

RECURSIVE ModificationLoop(_, _, _)
ModificationLoop(cur_idx, prev_idx, i) ==
    IF i > Len(cur_idx.keys) THEN << >>
    ELSE (IF InDict(cur_idx.keys[i], prev_idx)
          THEN Modifications(cur_idx.keys[i],
                             Lookup(prev_idx, cur_idx.keys[i]), cur_idx.val[i])
          ELSE << >>)
         \o ModificationLoop(cur_idx, prev_idx, i + 1)

DetectChangesThreePass(prev_idx, cur_idx) ==
    AppearanceLoop(cur_idx, prev_idx, 1)
    \o ModificationLoop(cur_idx, prev_idx, 1)
    \o PreviousLoop(prev_idx, cur_idx, 1)

\* mutant: the loop over previous run before the loop over current
DetectChangesDeletedFirst(prev_idx, cur_idx) ==
    PreviousLoop(prev_idx, cur_idx, 1) \o CurrentLoop(cur_idx, prev_idx, 1)

DetectChanges(prev_idx, cur_idx) ==
    CurrentLoop(cur_idx, prev_idx, 1) \o PreviousLoop(prev_idx, cur_idx, 1)

(***************************************************************************)
(* get_summary.                                                            *)
(***************************************************************************)
RECURSIVE CountType(_, _)
CountType(cs, type) ==
    IF cs = << >> THEN 0
    ELSE (IF Head(cs).change_type = type THEN 1 ELSE 0) + CountType(Tail(cs), type)

\* mutant: the reopened count looks for a tag no change carries
GetSummaryTypo(cs, prev, cur, prev_idx, cur_idx) ==
    [total_changes |-> Len(cs),
     new_tasks |-> CountType(cs, "new"),
     deleted_tasks |-> CountType(cs, "deleted"),
     bucket_changes |-> CountType(cs, "bucket_changed"),
     assignee_changes |-> CountType(cs, "assignee_changed"),
     completed_tasks |-> CountType(cs, "completed"),
     reopened_tasks |-> CountType(cs, "re_opened"),
     description_changes |-> CountType(cs, "description_changed"),
     progress_changes |-> CountType(cs, "progress_changed"),
     previous_snapshot_date |-> Get(prev, "created_at", "Unknown"),
     current_snapshot_date |-> Get(cur, "created_at", "Unknown"),
     previous_task_count |-> Len(prev_idx.keys),
     current_task_count |-> Len(cur_idx.keys)]

\* mutant: the two snapshot dates read from the wrong snapshot
GetSummarySwappedDates(cs, prev, cur, prev_idx, cur_idx) ==
    [total_changes |-> Len(cs),
     new_tasks |-> CountType(cs, "new"),
     deleted_tasks |-> CountType(cs, "deleted"),
     bucket_changes |-> CountType(cs, "bucket_changed"),
     assignee_changes |-> CountType(cs, "assignee_changed"),
     completed_tasks |-> CountType(cs, "completed"),
     reopened_tasks |-> CountType(cs, "reopened"),
     description_changes |-> CountType(cs, "description_changed"),
     progress_changes |-> CountType(cs, "progress_changed"),
     previous_snapshot_date |-> Get(cur, "created_at", "Unknown"),
     current_snapshot_date |-> Get(prev, "created_at", "Unknown"),
     previous_task_count |-> Len(prev_idx.keys),
     current_task_count |-> Len(cur_idx.keys)]

GetSummary(cs, prev, cur, prev_idx, cur_idx) ==
    [total_changes |-> Len(cs),
     new_tasks |-> CountType(cs, "new"),
     deleted_tasks |-> CountType(cs, "deleted"),
     bucket_changes |-> CountType(cs, "bucket_changed"),
     assignee_changes |-> CountType(cs, "assignee_changed"),
     completed_tasks |-> CountType(cs, "completed"),
     reopened_tasks |-> CountType(cs, "reopened"),
     description_changes |-> CountType(cs, "description_changed"),
     progress_changes |-> CountType(cs, "progress_changed"),
     previous_snapshot_date |-> Get(prev, "created_at", "Unknown"),
     current_snapshot_date |-> Get(cur, "created_at", "Unknown"),
     previous_task_count |-> Len(prev_idx.keys),
     current_task_count |-> Len(cur_idx.keys)]

NoSummary == [total_changes |-> -1]

(***************************************************************************)
(* TaskChange.describe and format_changes_text.  The module is ASCII: the  *)
(* bullet of an item line is written "*" and the umlauts of the German     *)
(* texts "ae", "oe", "ue".                                                 *)
(***************************************************************************)
\* a value inside an f-string: None prints as "None"
Str(v) == IF v = None THEN "None" ELSE v

Describe(c) ==
    CASE c.change_type = "new" ->
            "Neuer Lead: '" \o c.task_title \o "' (Owner: " \o c.assignees
            \o ") in Bucket '" \o Str(c.new_value) \o "'"
      [] c.change_type = "deleted" ->
            "Geloescht: '" \o c.task_title \o "' (war in Bucket '"
            \o Str(c.old_value) \o "')"
      [] c.change_type = "bucket_changed" ->
            "Verschoben: '" \o c.task_title \o "' (Owner: " \o c.assignees
            \o ") von '" \o Str(c.old_value) \o "' nach '"
            \o Str(c.new_value) \o "'"
      [] c.change_type = "assignee_changed" ->
            "Owner geaendert: '" \o c.task_title \o "' von '"
            \o Str(c.old_value) \o "' zu '" \o Str(c.new_value) \o "'"
      [] c.change_type = "completed" ->
            "Abgeschlossen: '" \o c.task_title \o "' (Owner: " \o c.assignees
            \o ")"
      [] c.change_type = "reopened" ->
            "Wieder geoeffnet: '" \o c.task_title \o "' (Owner: "
            \o c.assignees \o ")"
      [] c.change_type = "description_changed" ->
            "Beschreibung geaendert: '" \o c.task_title \o "' (Owner: "
            \o c.assignees \o ")"
      [] c.change_type = "progress_changed" ->
            "Status geaendert: '" \o c.task_title \o "' (Owner: "
            \o c.assignees \o ") von " \o Str(c.old_value) \o " auf "
            \o Str(c.new_value)
      [] OTHER -> "Aenderung: '" \o c.task_title \o "'"

\* "=" * 60 and "-" * 40
Rule60 == "============================================================"
Rule40 == "----------------------------------------"

NoChangesLine == "Keine Aenderungen gefunden."

\* the sections of the text report in the order of their if blocks: the
\* summary key that guards a section, its title, the tag of its items
\* mutant: the sections in the order in which detect_changes finds changes
SectionsInDetectionOrder ==
    << [key |-> "new_tasks", title |-> "NEUE TASKS", type |-> "new"],
       [key |-> "bucket_changes", title |-> "BUCKET-AENDERUNGEN",
        type |-> "bucket_changed"],
       [key |-> "assignee_changes", title |-> "OWNER-AENDERUNGEN",
        type |-> "assignee_changed"],
       [key |-> "completed_tasks", title |-> "ABGESCHLOSSEN",
        type |-> "completed"],
       [key |-> "reopened_tasks", title |-> "WIEDER GEOEFFNET",
        type |-> "reopened"],
       [key |-> "progress_changes", title |-> "STATUS GEAENDERT",
        type |-> "progress_changed"],
       [key |-> "description_changes", title |-> "BESCHREIBUNG GEAENDERT",
        type |-> "description_changed"],
       [key |-> "deleted_tasks", title |-> "GELOESCHT", type |-> "deleted"] >>

Sections ==
    << [key |-> "bucket_changes", title |-> "BUCKET-AENDERUNGEN",
        type |-> "bucket_changed"],
       [key |-> "new_tasks", title |-> "NEUE TASKS", type |-> "new"],
       [key |-> "completed_tasks", title |-> "ABGESCHLOSSEN",
        type |-> "completed"],
       [key |-> "assignee_changes", title |-> "OWNER-AENDERUNGEN",
        type |-> "assignee_changed"],
       [key |-> "deleted_tasks", title |-> "GELOESCHT", type |-> "deleted"],
       [key |-> "reopened_tasks", title |-> "WIEDER GEOEFFNET",
        type |-> "reopened"],
       [key |-> "description_changes", title |-> "BESCHREIBUNG GEAENDERT",
        type |-> "description_changed"],
       [key |-> "progress_changes", title |-> "STATUS GEAENDERT",
        type |-> "progress_changed"] >>

\* f"\n{title} ({count}):"
SectionHeader(title, count) == "\n" \o title \o " (" \o ToString(count) \o "):"

\* f"  * {c.describe()}"
ItemLine(c) == "  * " \o Describe(c)

RECURSIVE ItemLines(_, _)
ItemLines(cs, type) ==
    IF cs = << >> THEN << >>
    ELSE (IF Head(cs).change_type = type THEN << ItemLine(Head(cs)) >>
          ELSE << >>)
         \o ItemLines(Tail(cs), type)

\* one `if summary[key] > 0:` block
SectionLines(section, cs, sum) ==
    IF Get(sum, section.key, 0) > 0
    THEN << SectionHeader(section.title, sum[section.key]) >>
         \o ItemLines(cs, section.type)
    ELSE << >>

RECURSIVE AllSections(_, _, _)
AllSections(cs, sum, i) ==
    IF i > Len(Sections) THEN << >>
    ELSE SectionLines(Sections[i], cs, sum) \o AllSections(cs, sum, i + 1)

\* mutant: no branch for a summary without changes
ReportBodyNoEmptyCase(cs, sum) ==
    << "Gefundene Aenderungen: " \o ToString(sum.total_changes), Rule40 >>
    \o AllSections(cs, sum, 1)

\* the lines between the head and the foot of the report
ReportBody(cs, sum) ==
    IF sum.total_changes = 0
    THEN << NoChangesLine >>
    ELSE << "Gefundene Aenderungen: " \o ToString(sum.total_changes), Rule40 >>
         \o AllSections(cs, sum, 1)

\* the list `lines`; the function returns "\n".join(lines)
FormatChangesText(cs, sum) ==
    << Rule60, "PLANNER DELTA REPORT", Rule60, "",
       "Zeitraum: " \o sum.previous_snapshot_date \o " bis "
           \o sum.current_snapshot_date,
       "Tasks vorher: " \o ToString(sum.previous_task_count)
           \o ", Tasks jetzt: " \o ToString(sum.current_task_count),
       "" >>
    \o ReportBody(cs, sum)
    \o << "", Rule60 >>

(***************************************************************************)
(* ReportGenerator.generate_html_report.  The document is kept as its      *)
(* sequence of blocks: the "no changes" paragraph, section heads with      *)
(* title and item count, and items with the texts their template shows.    *)
(***************************************************************************)
NoMovesBlock == [block |-> "empty", text |-> "Keine Bewegungen in diesem Zeitraum."]

SectionBlock(title, count) ==
    [block |-> "section", title |-> title, count |-> count]

\* an item: the section it stands in, its first line and its second line
ItemBlock(section, head, detail) ==
    [block |-> "item", section |-> section, head |-> head, detail |-> detail]

\* the title followed by the assignee badge
WithBadge(c) == c.task_title \o " [" \o c.assignees \o "]"

Arrow(c) == Str(c.old_value) \o " -> " \o Str(c.new_value)

\* the render_* function of a section, applied to one change
RenderItem(title, c) ==
    CASE title = "Pipeline-Bewegungen" -> ItemBlock(title, WithBadge(c), Arrow(c))
      [] title = "Neue Leads" ->
            ItemBlock(title, WithBadge(c), "Bucket: " \o Str(c.new_value))
      [] title = "Abgeschlossen" -> ItemBlock(title, WithBadge(c), "")
      [] title = "Owner-Wechsel" -> ItemBlock(title, c.task_title, Arrow(c))
      [] title = "Notizen bearbeitet" ->
            ItemBlock(title, WithBadge(c), "Notizen aktualisiert")
      [] title = "Fortschritt" -> ItemBlock(title, WithBadge(c), Arrow(c))
      [] title = "Entfernt" ->
            ItemBlock(title, c.task_title, "Zuletzt in: " \o Str(c.old_value))

\* the sections of the HTML report in the order of their if blocks
HtmlSections ==
    << [title |-> "Pipeline-Bewegungen", type |-> "bucket_changed"],
       [title |-> "Neue Leads", type |-> "new"],
       [title |-> "Abgeschlossen", type |-> "completed"],
       [title |-> "Owner-Wechsel", type |-> "assignee_changed"],
       [title |-> "Notizen bearbeitet", type |-> "description_changed"],
       [title |-> "Fortschritt", type |-> "progress_changed"],
       [title |-> "Entfernt", type |-> "deleted"] >>

\* [c for c in changes if c.change_type == type]
RECURSIVE OfType(_, _)
OfType(cs, type) ==
    IF cs = << >> THEN << >>
    ELSE (IF Head(cs).change_type = type THEN << Head(cs) >> ELSE << >>)
         \o OfType(Tail(cs), type)

\* render_section(title, items, render_item_fn)
RenderSection(title, items) ==
    << SectionBlock(title, Len(items)) >>
    \o [i \in 1..Len(items) |-> RenderItem(title, items[i])]

RECURSIVE HtmlSectionBlocks(_, _)
HtmlSectionBlocks(cs, i) ==
    IF i > Len(HtmlSections) THEN << >>
    ELSE (IF OfType(cs, HtmlSections[i].type) # << >>
          THEN RenderSection(HtmlSections[i].title,
                             OfType(cs, HtmlSections[i].type))
          ELSE << >>)
         \o HtmlSectionBlocks(cs, i + 1)

\* the blocks between the summary bar and the footer
GenerateHtmlReport(cs, sum) ==
    IF sum.total_changes = 0
    THEN << NoMovesBlock >>
    ELSE HtmlSectionBlocks(cs, 1)

(***************************************************************************)
(* The inputs: snapshots as the snapshot source and the store supply them. *)
(***************************************************************************)
Ids == {"t1", "t2", "t3"}
Titles == {"Lead X", "Lead Y"}
BucketIds == {"b1", "b2"}
BucketNames == {"Inbox", "Won"}
AssigneeStrs == {"Unassigned", "Ann"}
Percents == {0, 50, 100}
Descriptions == {"", "call back"}
FirstDate == "2026-11-03T06:00:00Z"
LaterDate == "2026-11-04T06:00:00Z"
Dates == {FirstDate, LaterDate}
ChangeTypes == {"new", "deleted", "bucket_changed", "assignee_changed",
                "completed", "reopened", "description_changed",
                "progress_changed"}

\* an optional key: << >> when the key is missing, << v >> when it holds v
Optional(S) == {<< >>} \cup {<< v >> : v \in S}

OptKeys == << "bucket_id", "bucket_name", "assignees_str", "percent_complete",
              "description" >>

\* the optional fields of a task, in the order of OptKeys
Opts == Optional(BucketIds) \X Optional(BucketNames) \X Optional(AssigneeStrs)
        \X Optional(Percents) \X Optional(Descriptions)

\* the task dict with id, title and the optional keys that opt holds
MkTask(id, title, opt) ==
    LET keys == {"id", "title"} \cup {OptKeys[i] : i \in {j \in 1..5 : opt[j] # << >>}}
    IN  [k \in keys |->
            IF k = "id" THEN id
            ELSE IF k = "title" THEN title
            ELSE opt[CHOOSE i \in 1..5 : OptKeys[i] = k][1]]

\* a snapshot as SnapshotManager.create_snapshot builds it
MkSnapshot(date, tasks) ==
    [created_at |-> date, task_count |-> Len(tasks), tasks |-> JList(tasks)]

\* two fully populated task variants that differ in every compared field
OptA == << <<"b1">>, <<"Inbox">>, <<"Ann">>, <<50>>, <<"">> >>
OptB == << <<"b2">>, <<"Won">>, <<"Unassigned">>, <<100>>, <<"call back">> >>
ListTasks == {MkTask(id, "Lead X", OptA) : id \in Ids}
             \cup {MkTask(id, "Lead Y", OptB) : id \in Ids}

TaskLists == UNION {[1..n -> ListTasks] : n \in 0..MaxTasks}

ListSnapshots == {MkSnapshot(FirstDate, ts) : ts \in TaskLists}

\* a snapshot dict holding created_at and tasks only where c and t hold one
PartialSnapshot(c, t) ==
    [k \in {key \in {"created_at", "tasks"} :
               \/ key = "created_at" /\ c # << >>
               \/ key = "tasks" /\ t # << >>} |->
        IF k = "created_at" THEN c[1] ELSE t[1]]

\* snapshots without a tasks list: the key is missing, or holds null
MalformedSnapshots ==
    {PartialSnapshot(c, t) : c \in Optional(Dates), t \in Optional({JNull})}

\* the fields of two records of one task: title, then the optional fields
DiffCount(title1, opt1, title2, opt2) ==
    (IF title1 # title2 THEN 1 ELSE 0)
    + Cardinality({i \in 1..5 : opt1[i] # opt2[i]})

\* any task lists against each other, and snapshots without a list
InitLists ==
    /\ previous \in ListSnapshots \cup MalformedSnapshots
    /\ current \in ListSnapshots \cup MalformedSnapshots

\* one task on both sides, its two records differing in up to MaxDiff fields
InitPair ==
    \E opt1 \in Opts, title2 \in Titles, opt2 \in Opts :
        /\ DiffCount("Lead X", opt1, title2, opt2) <= MaxDiff
        /\ previous = MkSnapshot(FirstDate, << MkTask("t1", "Lead X", opt1) >>)
        /\ current = MkSnapshot(FirstDate, << MkTask("t1", title2, opt2) >>)

\* one task, with any fields, on one side and an empty task list on the other
InitOneSided ==
    \E title \in Titles, opt \in Opts :
        LET one == MkSnapshot(LaterDate, << MkTask("t1", title, opt) >>)
            none == MkSnapshot(FirstDate, << >>)
        IN  \/ previous = none /\ current = one
            \/ previous = one /\ current = none

\* change lists a caller can hand to get_summary: any order, any variants
GivenLists ==
    UNION {[1..n -> {TaskChange(type, "t1", "Lead X", "Unassigned", None, None)
                        : type \in ChangeTypes}]
           : n \in 0..MaxChanges}

\* before DeltaDetector(previous, current) is called
InitDetect ==
    /\ InitLists \/ InitPair \/ InitOneSided
    /\ previous_tasks = EmptyDict
    /\ current_tasks = EmptyDict
    /\ changes = << >>
    /\ pc = "start"

\* a detector of two empty snapshots, and a caller holding a change list
InitGiven ==
    /\ previous = MkSnapshot(FirstDate, << >>)
    /\ current = MkSnapshot(LaterDate, << >>)
    /\ previous_tasks = IndexTasks(<< >>)
    /\ current_tasks = IndexTasks(<< >>)
    /\ changes \in GivenLists
    /\ pc = "given"

\* no concurrent invocation
NoCalls == << >>

\* no run of main.py
NoRuns == << >>

Init ==
    /\ InitDetect \/ InitGiven
    /\ arg = << >>
    /\ summary = NoSummary
    /\ error = NoError
    /\ lines = << >>
    /\ html = << >>
    /\ calls = NoCalls
    /\ frames = NoCalls
    /\ store = NoRuns
    /\ run = NoRuns
    /\ log = NoRuns

(***************************************************************************)
(* The operations.                                                         *)
(***************************************************************************)
\* DeltaDetector(previous, current)
\* dict.setdefault: the dict with the key stored where it was absent
SetDefault(d, k, v) ==
    [x \in DOMAIN d \cup {k} |-> IF x \in DOMAIN d THEN d[x] ELSE v]

\* mutant: the constructor reads the tasks with snapshot.setdefault("tasks", [])
ConstructSetDefault ==
    /\ pc = "start"
    /\ previous' = SetDefault(previous, "tasks", JList(<< >>))
    /\ current' = SetDefault(current, "tasks", JList(<< >>))
    /\ IF ~Iterable(TasksOf(previous))
       THEN /\ pc' = "raised"
            /\ error' = "TypeError"
            /\ UNCHANGED <<previous_tasks, current_tasks>>
       ELSE /\ previous_tasks' = IndexTasks(TasksOf(previous).items)
            /\ IF ~Iterable(TasksOf(current))
               THEN /\ pc' = "raised"
                    /\ error' = "TypeError"
                    /\ UNCHANGED current_tasks
               ELSE /\ current_tasks' = IndexTasks(TasksOf(current).items)
                    /\ pc' = "constructed"
                    /\ UNCHANGED error
    /\ UNCHANGED <<changes, arg, summary, lines>>
    /\ UNCHANGED <<html, calls, frames, store, run, log>>

Construct ==
    /\ pc = "start"
    /\ IF ~Iterable(TasksOf(previous))
       THEN /\ pc' = "raised"
            /\ error' = "TypeError"
            /\ UNCHANGED <<previous_tasks, current_tasks>>
       ELSE /\ previous_tasks' = IndexTasks(TasksOf(previous).items)
            /\ IF ~Iterable(TasksOf(current))
               THEN /\ pc' = "raised"
                    /\ error' = "TypeError"
                    /\ UNCHANGED current_tasks
               ELSE /\ current_tasks' = IndexTasks(TasksOf(current).items)
                    /\ pc' = "constructed"
                    /\ UNCHANGED error
    /\ UNCHANGED <<previous, current, changes, arg, summary, lines>>
    /\ UNCHANGED <<html, calls, frames, store, run, log>>

\* changes = detector.detect_changes()
Detect ==
    /\ pc = "constructed"
    /\ changes' = DetectChanges(previous_tasks, current_tasks)
    /\ pc' = "detected"
    /\ UNCHANGED <<previous, current, previous_tasks, current_tasks, arg,
                   summary, error, lines>>
    /\ UNCHANGED <<html, calls, frames, store, run, log>>

\* detector.get_summary(changes)
SummarizeGiven ==
    /\ pc \in {"detected", "given"}
    /\ arg' = changes
    /\ summary' = GetSummary(changes, previous, current, previous_tasks,
                             current_tasks)
    /\ pc' = "done"
    /\ UNCHANGED <<previous, current, previous_tasks, current_tasks, changes,
                   error, lines>>
    /\ UNCHANGED <<html, calls, frames, store, run, log>>

\* detector.get_summary(): changes is None, so it runs detect_changes itself
SummarizeDefault ==
    /\ pc = "constructed"
    /\ arg' = DetectChanges(previous_tasks, current_tasks)
    /\ summary' = GetSummary(arg', previous, current, previous_tasks,
                             current_tasks)
    /\ pc' = "done"
    /\ UNCHANGED <<previous, current, previous_tasks, current_tasks, changes,
                   error, lines>>
    /\ UNCHANGED <<html, calls, frames, store, run, log>>

\* format_changes_text(changes, summary), on the list that was summarized
Format ==
    /\ pc = "done"
    /\ arg = changes
    /\ lines' = FormatChangesText(changes, summary)
    /\ pc' = "formatted"
    /\ UNCHANGED <<previous, current, previous_tasks, current_tasks, changes,
                   arg, summary, error>>
    /\ UNCHANGED <<html, calls, frames, store, run, log>>

\* ReportGenerator.generate_html_report(changes, summary), on the same list
GenerateHtml ==
    /\ pc = "formatted"
    /\ html' = GenerateHtmlReport(changes, summary)
    /\ pc' = "reported"
    /\ UNCHANGED <<previous, current, previous_tasks, current_tasks, changes,
                   arg, summary, error, lines>>
    /\ UNCHANGED <<calls, frames, store, run, log>>

Next ==
    \/ Construct
    \/ Detect
    \/ SummarizeGiven
    \/ SummarizeDefault
    \/ Format
    \/ GenerateHtml

Spec == Init /\ [][Next]_vars

(***************************************************************************)
(* Concurrent invocations.  Each invocation is given its own snapshot      *)
(* pair, constructs its own DeltaDetector and runs detect_changes on it,   *)
(* one loop iteration per step; the steps of the invocations interleave in *)
(* any order.                                                              *)
(***************************************************************************)
MaxCallTasks == 1

CallIds == {"call1", "call2"}

CallTasks == {MkTask("t1", "Lead X", OptA), MkTask("t1", "Lead X", OptB)}

CallSnapshots ==
    {MkSnapshot(FirstDate, ts) :
        ts \in UNION {[1..n -> CallTasks] : n \in 0..MaxCallTasks}}

\* mutant: `changes` is one module-level list that every invocation uses
FrameShared(c) == "call1"

\* the frame that holds the local variable `changes` of invocation c
Frame(c) == c

InitCalls ==
    /\ previous = MkSnapshot(FirstDate, << >>)
    /\ current = MkSnapshot(FirstDate, << >>)
    /\ previous_tasks = EmptyDict
    /\ current_tasks = EmptyDict
    /\ changes = << >>
    /\ arg = << >>
    /\ summary = NoSummary
    /\ pc = "calls"
    /\ error = NoError
    /\ lines = << >>
    /\ html = << >>
    /\ store = NoRuns
    /\ run = NoRuns
    /\ log = NoRuns
    /\ calls \in [CallIds ->
                    [previous : CallSnapshots, current : CallSnapshots,
                     previous_tasks : {EmptyDict}, current_tasks : {EmptyDict},
                     at : {"start"}, i : {0}, returned : {<< >>}]]
    /\ frames = [c \in CallIds |-> << >>]

\* DeltaDetector(previous, current) of invocation c
CallConstruct(c) ==
    /\ calls[c].at = "start"
    /\ calls' = [calls EXCEPT
                   ![c].previous_tasks =
                       IndexTasks(TasksOf(calls[c].previous).items),
                   ![c].current_tasks =
                       IndexTasks(TasksOf(calls[c].current).items),
                   ![c].at = "constructed"]
    /\ UNCHANGED frames

\* detect_changes is entered: changes = []
CallEnter(c) ==
    /\ calls[c].at = "constructed"
    /\ frames' = [frames EXCEPT ![Frame(c)] = << >>]
    /\ calls' = [calls EXCEPT ![c].at = "current_loop", ![c].i = 1]

\* one iteration of the loop over current_tasks, or its end
CallCurrentIter(c) ==
    /\ calls[c].at = "current_loop"
    /\ IF calls[c].i <= Len(calls[c].current_tasks.keys)
       THEN /\ frames' = [frames EXCEPT ![Frame(c)] =
                            @ \o CurrentStep(
                                    calls[c].current_tasks.keys[calls[c].i],
                                    calls[c].current_tasks.val[calls[c].i],
                                    calls[c].previous_tasks)]
            /\ calls' = [calls EXCEPT ![c].i = @ + 1]
       ELSE /\ calls' = [calls EXCEPT ![c].at = "previous_loop", ![c].i = 1]
            /\ UNCHANGED frames

\* one iteration of the loop over previous_tasks, or `return changes`
CallPreviousIter(c) ==
    /\ calls[c].at = "previous_loop"
    /\ IF calls[c].i <= Len(calls[c].previous_tasks.keys)
       THEN /\ frames' = [frames EXCEPT ![Frame(c)] =
                            @ \o PreviousStep(
                                    calls[c].previous_tasks.keys[calls[c].i],
                                    calls[c].previous_tasks.val[calls[c].i],
                                    calls[c].current_tasks)]
            /\ calls' = [calls EXCEPT ![c].i = @ + 1]
       ELSE /\ calls' = [calls EXCEPT ![c].at = "returned",
                                      ![c].returned = frames[Frame(c)]]
            /\ UNCHANGED frames

NextCalls ==
    /\ \E c \in CallIds :
          \/ CallConstruct(c)
          \/ CallEnter(c)
          \/ CallCurrentIter(c)
          \/ CallPreviousIter(c)
    /\ UNCHANGED <<previous, current, previous_tasks, current_tasks, changes,
                   arg, summary, pc, error, lines, html, store, run, log>>

SpecCalls == InitCalls /\ [][NextCalls]_vars

(***************************************************************************)
(* Runs of main.py against the snapshot store.  A run is --init, a delta   *)
(* run that mails its report, or a delta run with --test that writes the   *)
(* report to a file.  Between runs the board changes freely: each capture  *)
(* finds any of the task lists.  The store is the blob or the local file,  *)
(* as SnapshotManager.__init__ decides from the environment.               *)
(***************************************************************************)
MaxRuns == 3

RunModes == {"init", "delta", "test"}

RunTaskLists == {<< >>} \cup {<< t >> : t \in CallTasks}

\* datetime.utcnow().isoformat() + "Z" at the n-th run
CreatedAt(n) == "2026-11-0" \o ToString(n) \o "T06:00:00Z"

\* json.dumps of a snapshot: the members of the JSON object
Dumps(snapshot) == {<< k, snapshot[k] >> : k \in DOMAIN snapshot}

\* json.loads: the dict of the members of the document
Loads(doc) ==
    [k \in {m[1] : m \in doc} |-> (CHOOSE m \in doc : m[1] = k)[2]]

\* load_previous_snapshot: None is << >>.  With the blob, every exception of
\* the download is caught and None returned: the blob is missing, or the
\* request fails (downloaded is FALSE).  The local file is read when it exists.
LoadPreviousSnapshot(st, downloaded) ==
    IF st.use_blob
    THEN IF downloaded /\ st.doc # << >> THEN << Loads(st.doc[1]) >> ELSE << >>
    ELSE IF st.doc = << >> THEN << >> ELSE << Loads(st.doc[1]) >>

\* save_snapshot: the document replaces the blob or the file
SaveSnapshot(st, snapshot) == [st EXCEPT !.doc = << Dumps(snapshot) >>]

\* mutant: a delta run goes on to capture and detect whatever load returned
AfterLoadNoCheck(loaded) == "capture"

\* `if previous is None: run_initial_snapshot(token); return`
AfterLoad(loaded) == IF loaded = << >> THEN "initial" ELSE "capture"

InitRuns ==
    /\ previous = MkSnapshot(CreatedAt(0), << >>)
    /\ current = MkSnapshot(CreatedAt(0), << >>)
    /\ previous_tasks = EmptyDict
    /\ current_tasks = EmptyDict
    /\ changes = << >>
    /\ arg = << >>
    /\ summary = NoSummary
    /\ pc = "idle"
    /\ error = NoError
    /\ lines = << >>
    /\ html = << >>
    /\ calls = NoCalls
    /\ frames = NoCalls
    /\ store \in [use_blob : BOOLEAN, doc : {<< >>}]
    /\ run = [n |-> 0, mode |-> "init", loaded |-> << >>, did |-> {},
              delivery |-> "none"]
    /\ log = [last_saved |-> << >>, before |-> << >>, last |-> << >>]

\* main() with the flags of mode
RunStart(mode) ==
    /\ pc \in {"idle", "completed", "raised"}
    /\ run.n < MaxRuns
    /\ run' = [n |-> run.n + 1, mode |-> mode, loaded |-> << >>, did |-> {},
               delivery |-> "none"]
    /\ log' = [log EXCEPT !.before = log.last]
    /\ changes' = << >>
    /\ arg' = << >>
    /\ summary' = NoSummary
    /\ lines' = << >>
    /\ html' = << >>
    /\ error' = NoError
    /\ pc' = IF mode = "init" THEN "initial" ELSE "load"
    /\ UNCHANGED <<previous, current, previous_tasks, current_tasks, store>>

\* run_delta_detection: previous = manager.load_previous_snapshot()
RunLoad ==
    /\ pc = "load"
    /\ \E downloaded \in BOOLEAN :
          LET loaded == LoadPreviousSnapshot(store, downloaded)
          IN  /\ run' = [run EXCEPT !.loaded = loaded, !.did = @ \cup {"load"}]
              /\ previous' = IF loaded = << >> THEN previous ELSE loaded[1]
              /\ pc' = AfterLoad(loaded)
    /\ UNCHANGED <<current, previous_tasks, current_tasks, changes, arg,
                   summary, error, lines, html, store, log>>

\* run_initial_snapshot: create_and_save_snapshot
RunInitial ==
    /\ pc = "initial"
    /\ \E tasks \in RunTaskLists :
          LET snapshot == MkSnapshot(CreatedAt(run.n), tasks)
          IN  /\ current' = snapshot
              /\ store' = SaveSnapshot(store, snapshot)
              /\ log' = [log EXCEPT !.last_saved = << snapshot >>,
                                    !.last = << snapshot >>]
    /\ run' = [run EXCEPT !.did = @ \cup {"capture", "save"}]
    /\ pc' = "completed"
    /\ UNCHANGED <<previous, previous_tasks, current_tasks, changes, arg,
                   summary, error, lines, html>>

\* run_delta_detection: current = manager.create_snapshot()
RunCapture ==
    /\ pc = "capture"
    /\ \E tasks \in RunTaskLists :
          current' = MkSnapshot(CreatedAt(run.n), tasks)
    /\ run' = [run EXCEPT !.did = @ \cup {"capture"}]
    /\ pc' = "detect"
    /\ UNCHANGED <<previous, previous_tasks, current_tasks, changes, arg,
                   summary, error, lines, html, store, log>>

\* run_delta_detection: the detector, detect_changes, get_summary and the
\* text that is printed
RunDetect ==
    /\ pc = "detect"
    /\ previous_tasks' = IndexTasks(TasksOf(previous).items)
    /\ current_tasks' = IndexTasks(TasksOf(current).items)
    /\ changes' = DetectChanges(previous_tasks', current_tasks')
    /\ arg' = changes'
    /\ summary' = GetSummary(changes', previous, current, previous_tasks',
                             current_tasks')
    /\ lines' = FormatChangesText(changes', summary')
    /\ run' = [run EXCEPT !.did = @ \cup {"detect"}]
    /\ pc' = "deliver"
    /\ UNCHANGED <<previous, current, error, html, store, log>>

\* run_delta_detection: save_report_locally with --test, else
\* send_delta_report, whose result is not looked at: the mail is accepted
\* (202), rejected (send_email returns False), or requests.post raises
RunDeliver ==
    /\ pc = "deliver"
    /\ html' = GenerateHtmlReport(changes, summary)
    /\ IF run.mode = "test"
       THEN /\ run' = [run EXCEPT !.delivery = "file", !.did = @ \cup {"deliver"}]
            /\ pc' = "save"
            /\ UNCHANGED error
       ELSE \E outcome \in {"sent", "rejected", "raised"} :
               /\ run' = [run EXCEPT !.delivery = outcome,
                                     !.did = @ \cup {"deliver"}]
               /\ pc' = IF outcome = "raised" THEN "raised" ELSE "save"
               /\ error' = IF outcome = "raised" THEN "RequestException"
                           ELSE error
    /\ UNCHANGED <<previous, current, previous_tasks, current_tasks, changes,
                   arg, summary, lines, store, log>>

\* mutant: the run saves the snapshot it loaded instead of the one it captured
RunSaveLoaded ==
    /\ pc = "save"
    /\ store' = SaveSnapshot(store, previous)
    /\ log' = [log EXCEPT !.last_saved = << previous >>, !.last = << current >>]
    /\ run' = [run EXCEPT !.did = @ \cup {"save"}]
    /\ pc' = "completed"
    /\ UNCHANGED <<previous, current, previous_tasks, current_tasks, changes,
                   arg, summary, error, lines, html>>

\* run_delta_detection: manager.save_snapshot(current)
RunSave ==
    /\ pc = "save"
    /\ store' = SaveSnapshot(store, current)
    /\ log' = [log EXCEPT !.last_saved = << current >>, !.last = << current >>]
    /\ run' = [run EXCEPT !.did = @ \cup {"save"}]
    /\ pc' = "completed"
    /\ UNCHANGED <<previous, current, previous_tasks, current_tasks, changes,
                   arg, summary, error, lines, html>>

NextRuns ==
    /\ \/ \E mode \in RunModes : RunStart(mode)
       \/ RunLoad
       \/ RunInitial
       \/ RunCapture
       \/ RunDetect
       \/ RunDeliver
       \/ RunSave
    /\ UNCHANGED <<calls, frames>>

SpecRuns == InitRuns /\ [][NextRuns]_vars

(***************************************************************************)
(* What the claims speak of, read off the two input snapshots.             *)
(***************************************************************************)
\* the task list of a snapshot whose tasks are a list or missing
TaskList(snapshot) == TasksOf(snapshot).items

IdsIn(list) == {list[i]["id"] : i \in 1..Len(list)}

\* where an id first appears in a task list
FirstPos(list, id) ==
    CHOOSE i \in 1..Len(list) :
        list[i]["id"] = id /\ \A j \in 1..(i - 1) : list[j]["id"] # id

\* the record of an id in a task list (the last one, should it repeat)
RecordOf(list, id) ==
    list[CHOOSE i \in 1..Len(list) :
            list[i]["id"] = id /\ \A j \in (i + 1)..Len(list) : list[j]["id"] # id]

PrevIds == IdsIn(TaskList(previous))
CurIds == IdsIn(TaskList(current))

\* detect_changes has returned
Detected == pc = "detected"

\* the positions of the changes of one task with a tag among types
Positions(id, types) ==
    {i \in 1..Len(changes) :
        changes[i].task_id = id /\ changes[i].change_type \in types}

\* the positions of all changes of one task
ChangesOf(id) == {i \in 1..Len(changes) : changes[i].task_id = id}

CompletionTypes == {"completed", "reopened", "progress_changed"}
ModificationTypes ==
    {"bucket_changed", "assignee_changed", "description_changed"}
    \cup CompletionTypes

\* a task dict without its description key
WithoutDescription(task) ==
    [k \in DOMAIN task \ {"description"} |-> task[k]]

(***************************************************************************)
(* C1: comparing a snapshot with itself yields no change, whatever its     *)
(* task list and whichever optional fields its tasks lack.                 *)
(***************************************************************************)
C1_NoOpDiff == (Detected /\ previous = current) => changes = << >>

C1_Witness ==
    /\ Detected
    /\ previous = current
    /\ Len(TaskList(current)) >= 1
    /\ DOMAIN TaskList(current)[1] = {"id", "title"}

(***************************************************************************)
(* C2: an id only in current has exactly one New and no Deleted change; an *)
(* id only in previous has exactly one Deleted and no New change.          *)
(***************************************************************************)
C2_AppearDisappear ==
    Detected =>
        /\ \A id \in CurIds \ PrevIds :
              /\ Cardinality(Positions(id, {"new"})) = 1
              /\ Positions(id, {"deleted"}) = {}
        /\ \A id \in PrevIds \ CurIds :
              /\ Cardinality(Positions(id, {"deleted"})) = 1
              /\ Positions(id, {"new"}) = {}

C2_Witness ==
    /\ Detected
    /\ CurIds \ PrevIds # {}
    /\ PrevIds \ CurIds # {}
    /\ PrevIds \cap CurIds # {}

(***************************************************************************)
(* C3: for an id in both snapshots, exactly one of Completed, Reopened and *)
(* ProgressChanged is emitted when its percentComplete values (absent read *)
(* as 0) differ, and none of the three when they are equal.                *)
(***************************************************************************)
PercentOf(task) == IF "percent_complete" \in DOMAIN task
                   THEN task["percent_complete"] ELSE 0

C3_CompletionExclusive ==
    Detected =>
        \A id \in PrevIds \cap CurIds :
            Cardinality(Positions(id, CompletionTypes)) =
                IF PercentOf(RecordOf(TaskList(previous), id))
                       # PercentOf(RecordOf(TaskList(current), id))
                THEN 1 ELSE 0

C3_Witness ==
    /\ Detected
    /\ \E id \in PrevIds \cap CurIds :
          /\ "percent_complete" \notin DOMAIN RecordOf(TaskList(previous), id)
          /\ PercentOf(RecordOf(TaskList(current), id)) = 100
          /\ Cardinality(Positions(id, CompletionTypes)) = 1

(***************************************************************************)
(* C4: a task in both snapshots whose two records are the same but for the *)
(* description (absent read as "") has exactly one change, it is a         *)
(* DescriptionChanged, and it carries neither an old nor a new value.      *)
(***************************************************************************)
DescriptionOf(task) == IF "description" \in DOMAIN task
                       THEN task["description"] ELSE ""

OnlyDescriptionDiffers(id) ==
    LET p == RecordOf(TaskList(previous), id)
        c == RecordOf(TaskList(current), id)
    IN  /\ WithoutDescription(p) = WithoutDescription(c)
        /\ DescriptionOf(p) # DescriptionOf(c)

C4_DescriptionOnly ==
    Detected =>
        \A id \in PrevIds \cap CurIds :
            OnlyDescriptionDiffers(id) =>
                /\ Cardinality(ChangesOf(id)) = 1
                /\ \A i \in ChangesOf(id) :
                      /\ changes[i].change_type = "description_changed"
                      /\ changes[i].old_value = None
                      /\ changes[i].new_value = None

C4_Witness ==
    /\ Detected
    /\ \E id \in PrevIds \cap CurIds :
          /\ OnlyDescriptionDiffers(id)
          /\ "description" \notin DOMAIN RecordOf(TaskList(previous), id)
          /\ Positions(id, {"description_changed"}) # {}

(***************************************************************************)
(* C5: get_summary's total is the length of the list it was handed, and    *)
(* its eight per-variant counts add up to that total.                      *)
(***************************************************************************)
C5_CountConservation ==
    pc = "done" =>
        /\ summary.total_changes = Len(arg)
        /\ summary.new_tasks + summary.deleted_tasks + summary.bucket_changes
           + summary.assignee_changes + summary.completed_tasks
           + summary.reopened_tasks + summary.description_changes
           + summary.progress_changes = summary.total_changes

C5_Witness ==
    /\ pc = "done"
    /\ Len(arg) = 3
    /\ arg[1].change_type = "reopened"
    /\ arg[2].change_type = "new"
    /\ arg[3].change_type = "reopened"
    /\ summary.reopened_tasks = 2

(***************************************************************************)
(* C6, as claimed: every New change comes before every modification       *)
(* change.                                                                 *)
(***************************************************************************)
C6_NewBeforeModification ==
    Detected =>
        \A i, j \in 1..Len(changes) :
            (/\ changes[i].change_type = "new"
             /\ changes[j].change_type \in ModificationTypes) => i < j

(***************************************************************************)
(* C6, amended: New and modification changes come out of one pass over     *)
(* current's task list, so a New change comes before a modification change *)
(* exactly when its task comes earlier in current's task list than the     *)
(* modified task; every New change still comes before every Deleted one.   *)
(***************************************************************************)
C6_NewInCurrentOrder ==
    Detected =>
        /\ \A i, j \in 1..Len(changes) :
              (/\ changes[i].change_type = "new"
               /\ changes[j].change_type \in ModificationTypes) =>
                  (i < j <=> FirstPos(TaskList(current), changes[i].task_id)
                               < FirstPos(TaskList(current), changes[j].task_id))
        /\ \A i, j \in 1..Len(changes) :
              (/\ changes[i].change_type = "new"
               /\ changes[j].change_type = "deleted") => i < j

C6_Witness ==
    /\ Detected
    /\ \E i, j \in 1..Len(changes) :
          /\ changes[i].change_type = "new"
          /\ changes[j].change_type \in ModificationTypes
          /\ j < i

(***************************************************************************)
(* C7: every Deleted change comes after all New and modification changes,  *)
(* and the Deleted changes come in the order in which their ids appear in  *)
(* previous's task list.                                                   *)
(***************************************************************************)
C7_DeletedLast ==
    Detected =>
        /\ \A i, j \in 1..Len(changes) :
              (/\ changes[i].change_type = "deleted"
               /\ changes[j].change_type # "deleted") => j < i
        /\ \A i, j \in 1..Len(changes) :
              (/\ changes[i].change_type = "deleted"
               /\ changes[j].change_type = "deleted"
               /\ i < j) =>
                  FirstPos(TaskList(previous), changes[i].task_id)
                      < FirstPos(TaskList(previous), changes[j].task_id)

C7_Witness ==
    /\ Detected
    /\ \E i, j, k \in 1..Len(changes) :
          /\ changes[i].change_type = "new"
          /\ changes[j].change_type = "deleted"
          /\ changes[k].change_type = "deleted"
          /\ j < k
          /\ changes[j].task_id = "t2"
          /\ changes[k].task_id = "t1"

(***************************************************************************)
(* C8: the changes of a task that is in both snapshots are contiguous and  *)
(* ordered bucket, assignee, completion, description; the groups of two    *)
(* such tasks come in the order of the tasks in current's task list.       *)
(***************************************************************************)
Rank(type) ==
    CASE type = "bucket_changed" -> 1
      [] type = "assignee_changed" -> 2
      [] type \in CompletionTypes -> 3
      [] type = "description_changed" -> 4
      [] OTHER -> 0

C8_PerTaskOrder ==
    Detected =>
        /\ \A id \in PrevIds \cap CurIds :
              /\ \A i, k \in ChangesOf(id) : \A j \in i..k : j \in ChangesOf(id)
              /\ \A i, k \in ChangesOf(id) :
                    i < k => /\ Rank(changes[i].change_type) >= 1
                             /\ Rank(changes[i].change_type)
                                    < Rank(changes[k].change_type)
        /\ \A a, b \in PrevIds \cap CurIds :
              FirstPos(TaskList(current), a) < FirstPos(TaskList(current), b) =>
                  \A i \in ChangesOf(a), k \in ChangesOf(b) : i < k

C8_Witness ==
    /\ Detected
    /\ \E a, b \in PrevIds \cap CurIds :
          /\ a # b
          /\ Cardinality(ChangesOf(a)) = 4
          /\ Cardinality(ChangesOf(b)) = 4

(***************************************************************************)
(* C9: a snapshot without a tasks key counts as an empty task list and no  *)
(* error is raised: without the key in previous the result is one New per  *)
(* id of current, without it in current one Deleted per id of previous.    *)
(***************************************************************************)
LacksTasks(snapshot) == "tasks" \notin DOMAIN snapshot

HasTaskList(snapshot) ==
    "tasks" \in DOMAIN snapshot /\ snapshot["tasks"].type = "list"

\* the changes are one change of the given type for each of the ids
OnePerId(type, ids) ==
    /\ Len(changes) = Cardinality(ids)
    /\ \A i \in 1..Len(changes) : changes[i].change_type = type
    /\ \A id \in ids : Cardinality(ChangesOf(id)) = 1

C9_MissingTasksKey ==
    /\ (LacksTasks(previous) /\ HasTaskList(current)) =>
          /\ pc # "raised"
          /\ Detected => OnePerId("new", IdsIn(current["tasks"].items))
    /\ (LacksTasks(current) /\ HasTaskList(previous)) =>
          /\ pc # "raised"
          /\ Detected => OnePerId("deleted", IdsIn(previous["tasks"].items))
    /\ (LacksTasks(previous) /\ LacksTasks(current)) =>
          /\ pc # "raised"
          /\ Detected => changes = << >>

C9_Witness ==
    /\ Detected
    /\ LacksTasks(previous)
    /\ HasTaskList(current)
    /\ Cardinality(IdsIn(current["tasks"].items)) = 2
    /\ Len(changes) = 2

(***************************************************************************)
(* C10, as claimed: a snapshot whose tasks field is present but not a list *)
(* (null) raises no error in the constructor or in detect and counts as an *)
(* empty task list.                                                        *)
(***************************************************************************)
MistypedTasks(snapshot) ==
    "tasks" \in DOMAIN snapshot /\ snapshot["tasks"].type # "list"

C10_MistypedTasksTolerated ==
    (MistypedTasks(previous) \/ MistypedTasks(current)) =>
        /\ pc # "raised"
        /\ error = NoError

(***************************************************************************)
(* C11: for a task in both snapshots, an optional field that is absent in  *)
(* one record and holds its documented default in the other (assignee      *)
(* string "Unassigned", percentComplete 0, description "") gives no change *)
(* for that field.                                                         *)
(***************************************************************************)
\* key is missing in one of the two records and holds default in the other
AbsentAgainstDefault(p, c, key, default) ==
    \/ key \notin DOMAIN p /\ key \in DOMAIN c /\ c[key] = default
    \/ key \notin DOMAIN c /\ key \in DOMAIN p /\ p[key] = default

C11_DefaultAtComparison ==
    Detected =>
        \A id \in PrevIds \cap CurIds :
            LET p == RecordOf(TaskList(previous), id)
                c == RecordOf(TaskList(current), id)
            IN  /\ AbsentAgainstDefault(p, c, "assignees_str", "Unassigned")
                      => Positions(id, {"assignee_changed"}) = {}
                /\ AbsentAgainstDefault(p, c, "percent_complete", 0)
                      => Positions(id, CompletionTypes) = {}
                /\ AbsentAgainstDefault(p, c, "description", "")
                      => Positions(id, {"description_changed"}) = {}

\* the part of C11 that the code keeps: percentComplete and description
C11_PercentAndDescription ==
    Detected =>
        \A id \in PrevIds \cap CurIds :
            LET p == RecordOf(TaskList(previous), id)
                c == RecordOf(TaskList(current), id)
            IN  /\ AbsentAgainstDefault(p, c, "percent_complete", 0)
                      => Positions(id, CompletionTypes) = {}
                /\ AbsentAgainstDefault(p, c, "description", "")
                      => Positions(id, {"description_changed"}) = {}

(***************************************************************************)
(* C12: when a task list holds several records with one id, no error is    *)
(* raised, the last of them is the one compared and reported, and the id   *)
(* gets at most one New and at most one Deleted change: detect returns     *)
(* what it returns for the lists in which each id keeps its last record    *)
(* only (at the place where the id first appears).                         *)
(***************************************************************************)
HasRepeatedId(list) ==
    \E i, j \in 1..Len(list) : i # j /\ list[i]["id"] = list[j]["id"]

\* the list with one record per id: the last one, where the id comes first
RECURSIVE LastRecords(_, _)
LastRecords(list, i) ==
    IF i > Len(list) THEN << >>
    ELSE (IF FirstPos(list, list[i]["id"]) = i
          THEN << RecordOf(list, list[i]["id"]) >>
          ELSE << >>)
         \o LastRecords(list, i + 1)

C12_LastRecordWins ==
    /\ (/\ HasTaskList(previous) /\ HasTaskList(current)
        /\ \/ HasRepeatedId(previous["tasks"].items)
           \/ HasRepeatedId(current["tasks"].items)) => pc # "raised"
    /\ (/\ Detected
        /\ HasRepeatedId(TaskList(previous)) \/ HasRepeatedId(TaskList(current)))
       => /\ changes = DetectChanges(
                           IndexTasks(LastRecords(TaskList(previous), 1)),
                           IndexTasks(LastRecords(TaskList(current), 1)))
          /\ \A id \in PrevIds \cup CurIds :
                /\ Cardinality(Positions(id, {"new"})) <= 1
                /\ Cardinality(Positions(id, {"deleted"})) <= 1

C12_Witness ==
    /\ Detected
    /\ Len(TaskList(current)) = 2
    /\ TaskList(current)[1]["id"] = TaskList(current)[2]["id"]
    /\ TaskList(current)[1] # TaskList(current)[2]
    /\ TaskList(previous) = << TaskList(current)[1] >>
    /\ Len(changes) = 4

(***************************************************************************)
(* C13, as claimed: the summary's two dates and two task counts are the    *)
(* created_at and task_count fields of the two snapshots, and "Unknown"    *)
(* where a field is absent.                                                *)
(***************************************************************************)
DateIsField(value, snapshot) ==
    value = IF "created_at" \in DOMAIN snapshot
            THEN snapshot["created_at"] ELSE "Unknown"

\* a count is a number, so it is never the sentinel of an absent field
CountIsField(value, snapshot) ==
    "task_count" \in DOMAIN snapshot /\ value = snapshot["task_count"]

C13_MetadataVerbatim ==
    pc = "done" =>
        /\ DateIsField(summary.previous_snapshot_date, previous)
        /\ DateIsField(summary.current_snapshot_date, current)
        /\ CountIsField(summary.previous_task_count, previous)
        /\ CountIsField(summary.current_task_count, current)

(***************************************************************************)
(* C13, amended: the two dates are the created_at fields ("Unknown" where  *)
(* absent); the two task counts are the numbers of distinct task ids in    *)
(* the two task lists (0 without a list), whatever task_count holds.       *)
(***************************************************************************)
C13_DatesAndIndexCounts ==
    pc = "done" =>
        /\ DateIsField(summary.previous_snapshot_date, previous)
        /\ DateIsField(summary.current_snapshot_date, current)
        /\ summary.previous_task_count = Cardinality(PrevIds)
        /\ summary.current_task_count = Cardinality(CurIds)

C13_Witness ==
    /\ pc = "done"
    /\ "created_at" \notin DOMAIN previous
    /\ summary.previous_snapshot_date = "Unknown"
    /\ summary.current_snapshot_date = FirstDate
    /\ current["task_count"] = 2
    /\ summary.current_task_count = 1

(***************************************************************************)
(* C19: a task in both snapshots gets a BucketChanged change exactly when  *)
(* its bucket ids differ (a different bucket name alone gives none); the   *)
(* change's old value is the previous bucket name and its new value the    *)
(* current one, each "Unknown" when absent.                                *)
(***************************************************************************)
BucketIdOf(task) ==
    IF "bucket_id" \in DOMAIN task THEN << task["bucket_id"] >> ELSE << >>

BucketNameOf(task) ==
    IF "bucket_name" \in DOMAIN task THEN task["bucket_name"] ELSE "Unknown"

C19_BucketChanged ==
    Detected =>
        \A id \in PrevIds \cap CurIds :
            LET p == RecordOf(TaskList(previous), id)
                c == RecordOf(TaskList(current), id)
            IN  /\ Cardinality(Positions(id, {"bucket_changed"})) =
                       IF BucketIdOf(p) # BucketIdOf(c) THEN 1 ELSE 0
                /\ \A i \in Positions(id, {"bucket_changed"}) :
                       /\ changes[i].old_value = BucketNameOf(p)
                       /\ changes[i].new_value = BucketNameOf(c)

C19_Witness ==
    /\ Detected
    /\ \E id \in PrevIds \cap CurIds :
          LET p == RecordOf(TaskList(previous), id)
              c == RecordOf(TaskList(current), id)
          IN  /\ "bucket_name" \notin DOMAIN p
              /\ "bucket_id" \in DOMAIN p
              /\ "bucket_id" \in DOMAIN c
              /\ \E i \in Positions(id, {"bucket_changed"}) :
                    /\ changes[i].old_value = "Unknown"
                    /\ changes[i].new_value = "Won"

(***************************************************************************)
(* C20: a New change carries the current record's title and assignee       *)
(* string, the current bucket name as new value and no old value; a        *)
(* Deleted change carries the previous record's title and assignee string, *)
(* the previous bucket name as old value and no new value (an absent       *)
(* assignee string reads "Unassigned", an absent bucket name "Unknown").   *)
(***************************************************************************)
AssigneeStrOf(task) ==
    IF "assignees_str" \in DOMAIN task THEN task["assignees_str"]
    ELSE "Unassigned"

C20_NewDeletedPayload ==
    Detected =>
        \A i \in 1..Len(changes) :
            /\ changes[i].change_type = "new" =>
                  LET c == RecordOf(TaskList(current), changes[i].task_id)
                  IN  /\ changes[i].task_title = c["title"]
                      /\ changes[i].assignees = AssigneeStrOf(c)
                      /\ changes[i].new_value = BucketNameOf(c)
                      /\ changes[i].old_value = None
            /\ changes[i].change_type = "deleted" =>
                  LET p == RecordOf(TaskList(previous), changes[i].task_id)
                  IN  /\ changes[i].task_title = p["title"]
                      /\ changes[i].assignees = AssigneeStrOf(p)
                      /\ changes[i].old_value = BucketNameOf(p)
                      /\ changes[i].new_value = None

C20_Witness ==
    /\ Detected
    /\ \E i, j \in 1..Len(changes) :
          /\ changes[i].change_type = "new"
          /\ changes[i].task_title = "Lead Y"
          /\ changes[i].new_value = "Won"
          /\ changes[j].change_type = "deleted"
          /\ changes[j].task_title = "Lead X"
          /\ changes[j].old_value = "Inbox"
(***************************************************************************)
(* C14: the text report has its section headers in the order               *)
(* BucketChanged, New, Completed, AssigneeChanged, Deleted, Reopened,      *)
(* DescriptionChanged, ProgressChanged; a header carries the count the     *)
(* summary has for its variant, and a variant with count zero has none.    *)
(***************************************************************************)
Formatted == pc = "formatted"

\* the variants in the stated order, each with its summary key and its title
StatedOrder ==
    << <<"bucket_changes", "BUCKET-AENDERUNGEN">>,
       <<"new_tasks", "NEUE TASKS">>,
       <<"completed_tasks", "ABGESCHLOSSEN">>,
       <<"assignee_changes", "OWNER-AENDERUNGEN">>,
       <<"deleted_tasks", "GELOESCHT">>,
       <<"reopened_tasks", "WIEDER GEOEFFNET">>,
       <<"description_changes", "BESCHREIBUNG GEAENDERT">>,
       <<"progress_changes", "STATUS GEAENDERT">> >>

HeaderOf(title, count) == "\n" \o title \o " (" \o ToString(count) \o "):"

IsHeader(line) ==
    \E i \in 1..Len(StatedOrder), n \in 0..Len(changes) :
        line = HeaderOf(StatedOrder[i][2], n)

\* the header lines of the report, in the order of the report
RECURSIVE HeadersIn(_)
HeadersIn(ls) ==
    IF ls = << >> THEN << >>
    ELSE (IF IsHeader(Head(ls)) THEN << Head(ls) >> ELSE << >>)
         \o HeadersIn(Tail(ls))

\* one header for each variant the summary counts, from the i-th variant on
RECURSIVE StatedHeaders(_)
StatedHeaders(i) ==
    IF i > Len(StatedOrder) THEN << >>
    ELSE (IF summary[StatedOrder[i][1]] > 0
          THEN << HeaderOf(StatedOrder[i][2], summary[StatedOrder[i][1]]) >>
          ELSE << >>)
         \o StatedHeaders(i + 1)

C14_SectionOrder ==
    Formatted => HeadersIn(lines) = StatedHeaders(1)

\* a report with two sections, one of them with two items, and no section
\* for the variants before and between them
C14_Witness ==
    /\ Formatted
    /\ summary.new_tasks = 2
    /\ summary.deleted_tasks = 1
    /\ summary.total_changes = 3
    /\ HeadersIn(lines) = << HeaderOf("NEUE TASKS", 2), HeaderOf("GELOESCHT", 1) >>

(***************************************************************************)
(* C15: when the summary counts no change the text report holds the line   *)
(* saying so exactly once and no section; two snapshots without tasks are  *)
(* such a case, with an empty change list.                                 *)
(***************************************************************************)
Occurrences(ls, line) == Cardinality({i \in 1..Len(ls) : ls[i] = line})

C15_NoChangesLine ==
    /\ (Formatted /\ summary.total_changes = 0) =>
            /\ Occurrences(lines, "Keine Aenderungen gefunden.") = 1
            /\ \A i \in 1..Len(lines) : ~IsHeader(lines[i])
            /\ Occurrences(lines, "Gefundene Aenderungen: 0") = 0
    /\ (Detected /\ HasTaskList(previous) /\ HasTaskList(current)
            /\ TaskList(previous) = << >> /\ TaskList(current) = << >>) =>
            changes = << >>
    /\ (Formatted /\ changes = << >>) => summary.total_changes = 0

\* the detector ran on two snapshots without tasks and the report is written
C15_Witness ==
    /\ Formatted
    /\ arg = << >>
    /\ summary.total_changes = 0
    /\ TaskList(previous) = << >>
    /\ TaskList(current) = << >>
    /\ Occurrences(lines, "Keine Aenderungen gefunden.") = 1
(***************************************************************************)
(* C16: the constructor, detect and summarize do not write to the two      *)
(* snapshots: every step leaves every field of both, the task records      *)
(* included, as it was.                                                    *)
(***************************************************************************)
C16_InputsUnchanged ==
    [][previous' = previous /\ current' = current]_vars

\* the three calls have run on snapshots with tasks and found changes, and
\* on a snapshot that has no tasks key
C16_Witness ==
    /\ pc = "done"
    /\ arg = changes
    /\ changes # << >>
    /\ LacksTasks(previous)
    /\ HasTaskList(current)
    /\ Len(TaskList(current)) = 2
(***************************************************************************)
(* C17: when no id repeats within a snapshot, detect on the same tasks in  *)
(* any other order, in previous, in current or in both, returns the same   *)
(* changes with the same multiplicities; only their order may differ.      *)
(***************************************************************************)
Perms(n) == {f \in [1..n -> 1..n] : \A i, j \in 1..n : f[i] = f[j] => i = j}

Permuted(list, f) == [i \in 1..Len(list) |-> list[f[i]]]

Times(seq, x) == Cardinality({i \in 1..Len(seq) : seq[i] = x})

SameMultiset(a, b) ==
    /\ Len(a) = Len(b)
    /\ \A i \in 1..Len(a) : Times(a, a[i]) = Times(b, a[i])

UniqueIds ==
    /\ HasTaskList(previous) /\ ~HasRepeatedId(TaskList(previous))
    /\ HasTaskList(current) /\ ~HasRepeatedId(TaskList(current))

C17_OrderInsensitive ==
    (Detected /\ UniqueIds) =>
        \A f \in Perms(Len(TaskList(previous))),
           g \in Perms(Len(TaskList(current))) :
            SameMultiset(changes,
                         DetectChanges(
                             IndexTasks(Permuted(TaskList(previous), f)),
                             IndexTasks(Permuted(TaskList(current), g))))

\* two tasks on each side, one of them on both sides and modified, so that
\* the other order of either list returns the changes in another order
C17_Witness ==
    /\ Detected
    /\ UniqueIds
    /\ Len(TaskList(previous)) = 2
    /\ Len(TaskList(current)) = 2
    /\ Len(changes) >= 3
    /\ \E f \in Perms(2), g \in Perms(2) :
          changes # DetectChanges(IndexTasks(Permuted(TaskList(previous), f)),
                                  IndexTasks(Permuted(TaskList(current), g)))
(***************************************************************************)
(* C18: invocations of detect that run concurrently, each on its own two   *)
(* snapshots, return under every interleaving of their steps the change    *)
(* list that detect returns for those snapshots when it runs alone.        *)
(***************************************************************************)
ReturnedAlone(c) ==
    DetectChanges(IndexTasks(TasksOf(calls[c].previous).items),
                  IndexTasks(TasksOf(calls[c].current).items))

C18_Interleaving ==
    \A c \in CallIds :
        calls[c].at = "returned" => calls[c].returned = ReturnedAlone(c)

\* both invocations have returned, each with changes, and not the same ones
C18_Witness ==
    /\ pc = "calls"
    /\ \A c \in CallIds : calls[c].at = "returned"
    /\ calls["call1"].returned # << >>
    /\ calls["call2"].returned # << >>
    /\ calls["call1"].returned # calls["call2"].returned
(***************************************************************************)
(* C21: for a task in both snapshots whose records hold percentages p and  *)
(* c: Completed is emitted exactly when p < 100 and c = 100, Reopened      *)
(* exactly when p = 100 and c < 100, ProgressChanged exactly when p # c    *)
(* and neither is 100; the old value is "p%" and the new value "c%".       *)
(***************************************************************************)
Pct(n) == ToString(n) \o "%"

HasPercent(task) == "percent_complete" \in DOMAIN task

\* the task has exactly one change of the type if cond, and none otherwise,
\* and that change carries the two percentages
EmittedIff(id, type, cond, p, c) ==
    /\ Cardinality(Positions(id, {type})) = IF cond THEN 1 ELSE 0
    /\ \A i \in Positions(id, {type}) :
          /\ changes[i].old_value = Pct(p)
          /\ changes[i].new_value = Pct(c)

C21_CompletionCases ==
    Detected =>
        \A id \in PrevIds \cap CurIds :
            LET prev == RecordOf(TaskList(previous), id)
                cur == RecordOf(TaskList(current), id)
            IN  (HasPercent(prev) /\ HasPercent(cur)) =>
                    LET p == prev["percent_complete"]
                        c == cur["percent_complete"]
                    IN  /\ EmittedIff(id, "completed", p < 100 /\ c = 100, p, c)
                        /\ EmittedIff(id, "reopened", p = 100 /\ c < 100, p, c)
                        /\ EmittedIff(id, "progress_changed",
                                      p # c /\ p # 100 /\ c # 100, p, c)

\* a task that went from 50 to 100 and has its Completed change
C21_Witness ==
    /\ Detected
    /\ \E id \in PrevIds \cap CurIds :
          LET prev == RecordOf(TaskList(previous), id)
              cur == RecordOf(TaskList(current), id)
          IN  /\ HasPercent(prev) /\ prev["percent_complete"] = 50
              /\ HasPercent(cur) /\ cur["percent_complete"] = 100
              /\ \E i \in Positions(id, {"completed"}) :
                    /\ changes[i].old_value = "50%"
                    /\ changes[i].new_value = "100%"
(***************************************************************************)
(* C27: every BucketChanged, AssigneeChanged, Completed, Reopened and      *)
(* ProgressChanged change that detect returns has an old value that        *)
(* differs from its new value.                                             *)
(***************************************************************************)
ValuedTypes ==
    {"bucket_changed", "assignee_changed", "completed", "reopened",
     "progress_changed"}

C27_OldDiffersFromNew ==
    Detected =>
        \A i \in 1..Len(changes) :
            changes[i].change_type \in ValuedTypes =>
                changes[i].old_value # changes[i].new_value

\* the part of C27 that the code keeps: the three percentage variants
C27_PercentagesDiffer ==
    Detected =>
        \A i \in 1..Len(changes) :
            changes[i].change_type \in CompletionTypes =>
                changes[i].old_value # changes[i].new_value
(***************************************************************************)
(* C26: when the summary's total is not zero, the HTML report shows every  *)
(* change of the list it is given in exactly one section, so it holds as   *)
(* many items as the summary computed from that list counts changes.       *)
(***************************************************************************)
Reported == pc = "reported"

ItemsIn(doc) == {i \in 1..Len(doc) : doc[i].block = "item"}

\* the items of the document whose first line names the task of the change
ItemsNaming(doc, c) ==
    {i \in ItemsIn(doc) :
        doc[i].head \in {c.task_title,
                         c.task_title \o " [" \o c.assignees \o "]"}}

C26_EveryChangeRendered ==
    (Reported /\ summary.total_changes # 0) =>
        /\ Cardinality(ItemsIn(html)) = summary.total_changes
        /\ \A i \in 1..Len(changes) : ItemsNaming(html, changes[i]) # {}

\* the part of C26 that the code keeps: the changes that are not Reopened
C26_AllButReopened ==
    (Reported /\ summary.total_changes # 0) =>
        Cardinality(ItemsIn(html)) =
            summary.total_changes - summary.reopened_tasks
(***************************************************************************)
(* C22: whenever load is called it returns the snapshot that was saved     *)
(* last, and it returns "not found" only when nothing was ever saved.      *)
(***************************************************************************)
\* load_previous_snapshot has just returned
JustLoaded == pc \in {"initial", "capture"} /\ "load" \in run.did

C22_LoadReturnsLastSave == JustLoaded => run.loaded = log.last_saved

\* the part of C22 that the code keeps: the store in a local file
C22_LocalFile ==
    (JustLoaded /\ ~store.use_blob) => run.loaded = log.last_saved

(***************************************************************************)
(* C23: a delta run saves the snapshot it captured only after its report   *)
(* was delivered; when the delivery fails the store keeps the previous     *)
(* snapshot.                                                               *)
(***************************************************************************)
DeliveryFailed == run.delivery \in {"rejected", "raised"}

StoreHolds(snapshot) == store.doc # << >> /\ Loads(store.doc[1]) = snapshot

C23_SaveAfterDelivery ==
    /\ ("detect" \in run.did /\ "save" \in run.did) =>
            run.delivery \in {"sent", "file"}
    /\ DeliveryFailed => StoreHolds(previous)

\* the part of C23 that the code keeps: a send that raises ends the run
C23_RaisedKeepsPrevious ==
    run.delivery = "raised" => (pc = "raised" /\ StoreHolds(previous))

(***************************************************************************)
(* C24: at the end of every completed run the store holds the snapshot     *)
(* that the run captured, which is the one it compared if it compared; and *)
(* a run that compares does so against the snapshot captured by the last   *)
(* completed run before it.                                                *)
(***************************************************************************)
Completed == pc = "completed"

C25_NoPreviousNoReport ==
    (Completed /\ run.mode # "init" /\ run.loaded = << >>) =>
        /\ run.did = {"load", "capture", "save"}
        /\ run.delivery = "none"
        /\ changes = << >>
        /\ summary = NoSummary
        /\ lines = << >>
        /\ html = << >>
        /\ StoreHolds(current)
        /\ current["created_at"] = CreatedAt(run.n)

\* the first run is a delta run: the store is empty
C25_Witness ==
    /\ Completed
    /\ run.n = 1
    /\ run.mode = "delta"
    /\ run.loaded = << >>
    /\ log.last_saved = << current >>
    /\ current["task_count"] = 1

====
